---- MODULE Spec2Model ----
(***************************************************************************)
(* Order placement, order status history and inventory of the Summit      *)
(* Market backend: the gRPC, GraphQL and REST order-creation handlers,    *)
(* the order status endpoints and the stock-mutating endpoints and jobs.  *)
(* The database is the committed rows (products, orders, order items,     *)
(* order status rows); a handler running inside transaction.atomic() keeps *)
(* its writes in a buffer that is applied at commit and dropped at        *)
(* rollback, and holds the row locks it took with select_for_update until *)
(* then.  Every ORM call outside a transaction commits by itself.         *)
(* Money is counted in cents.                                             *)
(***************************************************************************)
EXTENDS Integers, Sequences, FiniteSets, TLC

NumProducts == 2
NumReq == 2
MaxLines == 2

\* tax = subtotal * D("0.10"), shipping = D("10.00")
TaxRatePercent == 10
FlatShipping == 1000

Products == 1..NumProducts
\* product ids a request may name; id 0 names no row
ProductIds == 0..NumProducts
Requests == 1..NumReq
Quantities == {0, 2, 5}
InitStocks == {2, 5}
\* the starting price of product p: the even products are free
InitPrice(p) == IF p % 2 = 1 THEN 1999 ELSE 0

Adapters == {"grpc", "graphql", "rest"}
Missing == {"none", "customer", "shipping", "billing"}

VARIABLES
    \* the committed rows: Product.stock_quantity and Product.price by product
    \* id, Order rows by id, OrderItem rows and OrderStatus rows in creation order
    stock, price, orders, items, events,
    nextId,     \* the next Order id
    \* the order-creation requests: input, position, loop index, the handler's
    \* local state and uncommitted writes, and the response
    req, pc, idx, tx, result,
    lock,       \* the transaction holding each product's row lock (0: none)
    stock0,     \* history: the stock the run started with
    \* the order status endpoints' requests: position, locals, last response
    hpc, hloc, hres,
    \* the stock jobs' workers: position and locals
    wpc, wloc,
    alerted,    \* the products a send_low_stock_notification job was queued for
    \* the task queue: the messages published to the broker, each with its
    \* retry count and the seconds left until its eta, and the message each
    \* worker is running
    jobs, wjob,
    aged,       \* the orders created before the cleanup job's cutoff date
    doomed,     \* the orders a running cleanup_old_orders has selected
    ext,        \* what the external inventory answers for each product
    syncRuns,   \* history: the runs of sync_external_inventory that have ended
    afterFirst  \* history: stock and price when the first of them ended

vars == <<stock, price, orders, items, events, nextId,
          req, pc, idx, tx, lock, result, stock0, hpc, hloc, hres, wpc, wloc, alerted,
          jobs, wjob, aged, doomed, ext, syncRuns, afterFirst>>

dbVars == <<stock, price, orders, items, events>>
statusVars == <<hpc, hloc, hres>>
jobVars == <<wpc, wloc, alerted>>
queueVars == <<jobs, wjob>>
cleanupVars == <<aged, doomed>>
syncVars == <<ext, syncRuns, afterFirst>>
pipeVars == <<queueVars, cleanupVars, syncVars>>

----------------------------------------------------------------------------
(* Money *)

\* a mutant of QuantizeHalfUp: the digits past the cent are dropped
QuantizeDown(n, d) == n \div d

\* Decimal.quantize(Decimal("0.01"), rounding=ROUND_HALF_UP) of n/d cents
QuantizeHalfUp(n, d) ==
    IF n >= 0 THEN (2 * n + d) \div (2 * d)
              ELSE 0 - ((2 * (0 - n) + d) \div (2 * d))

\* tax = (subtotal * D("0.10")).quantize(...)
TaxOf(subtotal) == QuantizeHalfUp(subtotal * TaxRatePercent, 100)

\* shipping = D("10.00") if subtotal > 0 else D("0.00")
ShippingOf(subtotal) == IF subtotal > 0 THEN FlatShipping ELSE 0

\* a mutant of TotalOf: the shipping cost left out of the total
TotalOfNoShipping(subtotal, tax, shipping) == subtotal + tax

\* total = (subtotal + tax + shipping).quantize(...): all three are whole cents
TotalOf(subtotal, tax, shipping) == QuantizeHalfUp(subtotal + tax + shipping, 1)

\* line_total = unit_price * D(qty)
LineTotal(unit_price, qty) == unit_price * qty

----------------------------------------------------------------------------
(* Rows and requests *)

\* the status a new Order row gets from the model's default
DefaultStatus == "pending"

NewOrderRow ==
    [status |-> DefaultStatus, subtotal |-> 0, tax_amount |-> 0,
     shipping_cost |-> 0, total_amount |-> 0]

ItemRow(o, p, qty, unit_price) ==
    [order |-> o, product |-> p, quantity |-> qty,
     unit_price |-> unit_price, total_price |-> LineTotal(unit_price, qty)]

\* order.items.all() and order.status_history, in creation order
ItemsOf(o) == SelectSeq(items, LAMBDA it : it.order = o)
EventsOf(o) == SelectSeq(events, LAMBDA e : e.order = o)

RECURSIVE SumQuantity(_)
SumQuantity(its) ==
    IF its = <<>> THEN 0 ELSE Head(its).quantity + SumQuantity(Tail(its))

Line == [product : ProductIds, quantity : Quantities]

\* a line naming a missing product fails before its quantity is read
LineSet == {l \in Line : l.product = 0 => l.quantity = 2}

RECURSIVE SeqsUpTo(_, _)
SeqsUpTo(S, n) ==
    IF n = 0 THEN {<<>>}
    ELSE LET shorter == SeqsUpTo(S, n - 1)
         IN  shorter \cup {Append(s, x) : s \in {t \in shorter : Len(t) = n - 1}, x \in S}

LineLists == SeqsUpTo(LineSet, MaxLines)

\* the subtotal, tax and shipping a REST client posts
ClientTotals == {<<0, 0, 0>>, <<1000, 100, 1000>>}

\* the requests of a run; a REST request with items never gets past its
\* first item, so its posted totals vary only without items
ReqMenu ==
    {[adapter |-> a, missing |-> "none", lines |-> l, client |-> c] :
        a \in Adapters, l \in LineLists, c \in {<<0, 0, 0>>}}
    \cup {[adapter |-> "rest", missing |-> "none", lines |-> l, client |-> c] :
        l \in {<<>>}, c \in ClientTotals}
    \cup {[adapter |-> a, missing |-> m, lines |-> l, client |-> c] :
        a \in Adapters, m \in Missing \ {"none"},
        l \in {<<[product |-> 1, quantity |-> 2]>>}, c \in {<<0, 0, 0>>}}

NumHandlers == 2
NumWorkers == 2
Handlers == 1..NumHandlers
Workers == 1..NumWorkers

NoLocal == [order |-> 0, status |-> "", row |-> NewOrderRow]

\* a job's locals: its arguments, its loop position and the product rows
\* it has read and not yet written back
NoRows == [p \in Products |-> 0]

NoJob ==
    [product |-> 0, quantity |-> 0, i |-> 0, snapStock |-> NoRows, snapPrice |-> NoRows]

\* an external answer: the status of the response and, on a 200, the
\* "stock" and "price" of its JSON body, each one value or absent
NoAnswer == [answer |-> "404", stock |-> <<>>, price |-> <<>>]

\* no status request and no job in progress, an empty task queue, no order
\* older than the cutoff
Idle ==
    /\ hpc = [h \in Handlers |-> "idle"]
    /\ hloc = [h \in Handlers |-> NoLocal]
    /\ hres = [h \in Handlers |-> ""]
    /\ wpc = [w \in Workers |-> "idle"]
    /\ wloc = [w \in Workers |-> NoJob]
    /\ alerted = {}
    /\ jobs = <<>>
    /\ wjob = [w \in Workers |-> 0]
    /\ aged = {}
    /\ doomed = {}
    /\ ext = [p \in Products |-> NoAnswer]
    /\ syncRuns = 0
    /\ afterFirst = <<>>

NoTx ==
    [oid |-> 0, order |-> NewOrderRow, items |-> <<>>, wrote |-> {},
     stock |-> [p \in Products |-> 0], subtotal |-> 0, dec |-> FALSE]

Init ==
    /\ stock \in [Products -> InitStocks]
    /\ price = [p \in Products |-> InitPrice(p)]
    /\ orders = <<>>
    /\ items = <<>>
    /\ events = <<>>
    /\ nextId = 1
    /\ req \in [Requests -> ReqMenu]
    /\ pc = [r \in Requests |-> "start"]
    /\ idx = [r \in Requests |-> 0]
    /\ tx = [r \in Requests |-> NoTx]
    /\ lock = [p \in Products |-> 0]
    /\ result = [r \in Requests |-> ""]
    /\ stock0 = stock
    /\ Idle

----------------------------------------------------------------------------
(* gRPC: SummitMarketService.CreateOrder *)

\* the value of a product row a statement of request r reads: its own
\* uncommitted write if it made one, the committed row otherwise
TxStock(r, p) == IF p \in tx[r].wrote THEN tx[r].stock[p] ELSE stock[p]

Unlocked(r) == [p \in Products |-> IF lock[p] = r THEN 0 ELSE lock[p]]

Finish(r, code) ==
    /\ pc' = [pc EXCEPT ![r] = "done"]
    /\ result' = [result EXCEPT ![r] = code]

\* a mutant of GrpcAbort: no transaction around the handler, so the rows
\* written before the failure stay
GrpcAbortNoRollback(r, code) ==
    /\ Finish(r, code)
    /\ lock' = Unlocked(r)
    /\ orders' = (tx[r].oid :> tx[r].order) @@ orders
    /\ items' = items \o tx[r].items
    /\ stock' = [p \in Products |-> TxStock(r, p)]
    /\ tx' = [tx EXCEPT ![r] = [NoTx EXCEPT !.oid = tx[r].oid]]
    /\ UNCHANGED <<price, events>>

\* context.abort inside "with transaction.atomic()": the exception leaves the
\* block, the transaction rolls back and its row locks are released
GrpcAbort(r, code) ==
    /\ Finish(r, code)
    /\ lock' = Unlocked(r)
    /\ tx' = [tx EXCEPT ![r] = [NoTx EXCEPT !.oid = tx[r].oid]]
    /\ UNCHANGED dbVars

\* the customer and address lookups, then Order.objects.create inside the
\* transaction
GrpcBegin(r) ==
    /\ pc[r] = "start"
    /\ req[r].adapter = "grpc"
    /\ IF req[r].missing # "none"
       THEN /\ Finish(r, "NOT_FOUND")
            /\ UNCHANGED <<nextId, idx, tx>>
       ELSE /\ tx' = [tx EXCEPT ![r] = [NoTx EXCEPT !.oid = nextId]]
            /\ nextId' = nextId + 1
            /\ idx' = [idx EXCEPT ![r] = 1]
            /\ pc' = [pc EXCEPT ![r] = "loop"]
            /\ UNCHANGED result
    /\ UNCHANGED <<dbVars, req, lock, stock0, statusVars, jobVars, pipeVars>>

\* one pass of "for item in request.items"
GrpcItem(r) ==
    /\ pc[r] = "loop"
    /\ req[r].adapter = "grpc"
    /\ idx[r] <= Len(req[r].lines)
    /\ LET p == req[r].lines[idx[r]].product
           qty == req[r].lines[idx[r]].quantity
       IN  IF p \notin Products
           THEN GrpcAbort(r, "NOT_FOUND") /\ UNCHANGED idx
           ELSE \* select_for_update waits while another transaction holds the row
                /\ lock[p] \in {0, r}
                /\ IF qty <= 0
                   THEN GrpcAbort(r, "INVALID_ARGUMENT") /\ UNCHANGED idx
                   ELSE IF TxStock(r, p) < qty
                   THEN GrpcAbort(r, "FAILED_PRECONDITION") /\ UNCHANGED idx
                   ELSE /\ lock' = [lock EXCEPT ![p] = r]
                        /\ tx' = [tx EXCEPT
                              ![r].items = Append(@, ItemRow(tx[r].oid, p, qty, price[p])),
                              ![r].wrote = @ \cup {p},
                              ![r].stock[p] = TxStock(r, p) - qty,
                              ![r].subtotal = @ + LineTotal(price[p], qty)]
                        /\ idx' = [idx EXCEPT ![r] = @ + 1]
                        /\ UNCHANGED <<dbVars, pc, result>>
    /\ UNCHANGED <<nextId, req, stock0, statusVars, jobVars, pipeVars>>

\* the totals, order.save(update_fields=...) and the commit
GrpcCommit(r) ==
    /\ pc[r] = "loop"
    /\ req[r].adapter = "grpc"
    /\ idx[r] > Len(req[r].lines)
    /\ LET subtotal == tx[r].subtotal
           tax == TaxOf(subtotal)
           shipping == ShippingOf(subtotal)
           row == [tx[r].order EXCEPT
                     !.subtotal = subtotal, !.tax_amount = tax,
                     !.shipping_cost = shipping,
                     !.total_amount = TotalOf(subtotal, tax, shipping)]
       IN  /\ orders' = (tx[r].oid :> row) @@ orders
           /\ items' = items \o tx[r].items
           /\ stock' = [p \in Products |-> TxStock(r, p)]
    /\ lock' = Unlocked(r)
    /\ tx' = [tx EXCEPT ![r] = [NoTx EXCEPT !.oid = tx[r].oid]]
    /\ Finish(r, "OK")
    /\ UNCHANGED <<price, events, nextId, req, idx, stock0, statusVars, jobVars, pipeVars>>

----------------------------------------------------------------------------
(* GraphQL: CreateOrder.mutate.  No transaction: every create and save
   commits by itself. *)

\* order.shipping_cost = 10.0
GqlShipping == 1000

\* order.tax_amount = total * 0.1, reached only with the int total 0
GqlTaxOf(total) == (total * 10) \div 100

\* User.objects.get, then Order.objects.create
GqlBegin(r) ==
    /\ pc[r] = "start"
    /\ req[r].adapter = "graphql"
    /\ IF req[r].missing = "customer"
       THEN /\ Finish(r, "DoesNotExist")
            /\ UNCHANGED <<orders, nextId, idx, tx>>
       ELSE /\ orders' = (nextId :> NewOrderRow) @@ orders
            /\ tx' = [tx EXCEPT ![r] = [NoTx EXCEPT !.oid = nextId]]
            /\ nextId' = nextId + 1
            /\ idx' = [idx EXCEPT ![r] = 1]
            /\ pc' = [pc EXCEPT ![r] = "loop"]
            /\ UNCHANGED result
    /\ UNCHANGED <<stock, price, items, events, req, lock, stock0, statusVars, jobVars, pipeVars>>

\* one pass of "for item in items": no stock is read or written
GqlItem(r) ==
    /\ pc[r] = "loop"
    /\ req[r].adapter = "graphql"
    /\ idx[r] <= Len(req[r].lines)
    /\ LET p == req[r].lines[idx[r]].product
           qty == req[r].lines[idx[r]].quantity
       IN  IF p \notin Products
           THEN Finish(r, "DoesNotExist") /\ UNCHANGED <<items, tx, idx>>
           ELSE IF qty <= 0
           THEN Finish(r, "GraphQLError") /\ UNCHANGED <<items, tx, idx>>
           ELSE /\ items' = Append(items, ItemRow(tx[r].oid, p, qty, price[p]))
                \* total += (product.price or 0) * item.quantity: a Decimal
                \* once a price is not zero
                /\ tx' = [tx EXCEPT
                      ![r].subtotal = @ + LineTotal(price[p], qty),
                      ![r].dec = @ \/ price[p] # 0]
                /\ idx' = [idx EXCEPT ![r] = @ + 1]
                /\ UNCHANGED <<pc, result>>
    /\ UNCHANGED <<stock, price, orders, events, nextId, req, lock, stock0, statusVars, jobVars, pipeVars>>

\* the totals and order.save(): Decimal * float raises TypeError
GqlFinish(r) ==
    /\ pc[r] = "loop"
    /\ req[r].adapter = "graphql"
    /\ idx[r] > Len(req[r].lines)
    /\ IF tx[r].dec
       THEN Finish(r, "TypeError") /\ UNCHANGED orders
       ELSE LET subtotal == tx[r].subtotal
                tax == GqlTaxOf(subtotal)
                row == [tx[r].order EXCEPT
                          !.subtotal = subtotal, !.tax_amount = tax,
                          !.shipping_cost = GqlShipping,
                          !.total_amount = subtotal + tax + GqlShipping]
            IN  /\ orders' = (tx[r].oid :> row) @@ orders
                /\ Finish(r, "OK")
    /\ UNCHANGED <<stock, price, items, events, nextId, req, idx, tx, lock, stock0, statusVars, jobVars, pipeVars>>

----------------------------------------------------------------------------
(* REST: OrderViewSet.create with OrderCreateSerializer.  No transaction. *)

\* is_valid: the customer and addresses exist, every item names an existing
\* product and (OrderItemSerializer's writable field "order") an existing
\* order; then Order.objects.create(**validated_data)
RestBegin(r) ==
    /\ pc[r] = "start"
    /\ req[r].adapter = "rest"
    /\ \E ref \in DOMAIN orders \cup {0} :
         IF \/ req[r].missing # "none"
            \/ \E i \in 1..Len(req[r].lines) : req[r].lines[i].product \notin Products
            \/ Len(req[r].lines) > 0 /\ ref = 0
         THEN /\ Finish(r, "ValidationError")
              /\ UNCHANGED <<orders, nextId, idx, tx>>
         ELSE LET row == [NewOrderRow EXCEPT
                            !.subtotal = req[r].client[1],
                            !.tax_amount = req[r].client[2],
                            !.shipping_cost = req[r].client[3]]
              IN  /\ orders' = (nextId :> row) @@ orders
                  /\ tx' = [tx EXCEPT ![r] = [NoTx EXCEPT !.oid = nextId, !.order = row]]
                  /\ nextId' = nextId + 1
                  /\ idx' = [idx EXCEPT ![r] = 1]
                  /\ pc' = [pc EXCEPT ![r] = "loop"]
                  /\ UNCHANGED result
    /\ UNCHANGED <<stock, price, items, events, req, lock, stock0, statusVars, jobVars, pipeVars>>

\* OrderItem.objects.create(order=order, **item_data): item_data holds the
\* key "order" too, so the call raises TypeError; the view answers 400
RestItem(r) ==
    /\ pc[r] = "loop"
    /\ req[r].adapter = "rest"
    /\ idx[r] <= Len(req[r].lines)
    /\ Finish(r, "TypeError")
    /\ UNCHANGED <<dbVars, nextId, req, idx, tx, lock, stock0, statusVars, jobVars, pipeVars>>

\* order.total_amount = subtotal + tax_amount + shipping_cost; order.save()
RestFinish(r) ==
    /\ pc[r] = "loop"
    /\ req[r].adapter = "rest"
    /\ idx[r] > Len(req[r].lines)
    /\ LET o == tx[r].order
           row == [o EXCEPT !.total_amount = o.subtotal + o.tax_amount + o.shipping_cost]
       IN  orders' = (tx[r].oid :> row) @@ orders
    /\ Finish(r, "OK")
    /\ UNCHANGED <<stock, price, items, events, nextId, req, idx, tx, lock, stock0, statusVars, jobVars, pipeVars>>

----------------------------------------------------------------------------
(* The order status endpoints: OrderViewSet.update_status and cancel_order,
   OrderStatusViewSet.create.  No transaction: every save and create commits
   by itself. *)

MaxEvents == 3

Statuses ==
    {"pending", "confirmed", "processing", "shipped", "delivered", "cancelled"}

Busy == Cardinality({h \in Handlers : hpc[h] # "idle"})

\* room in the OrderStatus table for the row a request that starts will write
Room == Len(events) + Busy < MaxEvents

Local(o, s) == [order |-> o, status |-> s, row |-> orders[o]]

\* the response; the request's locals are gone with it
Answer(h, code) ==
    /\ hpc' = [hpc EXCEPT ![h] = "idle"]
    /\ hloc' = [hloc EXCEPT ![h] = NoLocal]
    /\ hres' = [hres EXCEPT ![h] = code]

\* OrderUpdateStatusSerializer.is_valid: a ModelSerializer over the fields
\* status and notes, with no validate method: every status value passes
StatusAllowed(old, new) == new \in Statuses

\* update_status to the serializer.save(): the order row is written
UpdateStatusSave(h, o, s) ==
    /\ hpc[h] = "idle"
    /\ Room
    /\ StatusAllowed(orders[o].status, s)
    /\ orders' = [orders EXCEPT ![o].status = s]
    /\ hpc' = [hpc EXCEPT ![h] = "us_log"]
    /\ hloc' = [hloc EXCEPT ![h] = Local(o, s)]
    /\ hres' = [hres EXCEPT ![h] = ""]
    /\ UNCHANGED <<stock, price, items, events, nextId, req, pc, idx, tx, lock,
                   result, stock0, jobVars, pipeVars>>

\* update_status: OrderStatus.objects.create(order=order, status=order.status)
\* (an order row deleted in between fails the foreign key: no row, a 500)
UpdateStatusLog(h) ==
    /\ hpc[h] = "us_log"
    /\ IF hloc[h].order \in DOMAIN orders
       THEN /\ events' = Append(events, [order |-> hloc[h].order, status |-> hloc[h].status])
            /\ Answer(h, "200")
       ELSE /\ UNCHANGED events
            /\ Answer(h, "500")
    /\ UNCHANGED <<stock, price, orders, items, nextId, req, pc, idx, tx, lock,
                   result, stock0, jobVars, pipeVars>>

\* cancel_order: get_object and the check of order.status
CancelCheck(h, o) ==
    /\ hpc[h] = "idle"
    /\ IF orders[o].status \in {"pending", "confirmed"}
       THEN /\ Room
            /\ hpc' = [hpc EXCEPT ![h] = "co_save"]
            /\ hloc' = [hloc EXCEPT ![h] = Local(o, "cancelled")]
            /\ hres' = [hres EXCEPT ![h] = ""]
       ELSE Answer(h, "400")
    /\ UNCHANGED <<dbVars, nextId, req, pc, idx, tx, lock, result, stock0, jobVars, pipeVars>>

\* cancel_order: order.status = "cancelled"; order.save() writes the row as
\* it was read, with the new status
CancelSave(h) ==
    /\ hpc[h] = "co_save"
    /\ orders' = [orders EXCEPT ![hloc[h].order] =
                     [hloc[h].row EXCEPT !.status = "cancelled"]]
    /\ hpc' = [hpc EXCEPT ![h] = "co_log"]
    /\ UNCHANGED <<stock, price, items, events, nextId, req, pc, idx, tx, lock,
                   result, stock0, hloc, hres, jobVars, pipeVars>>

\* cancel_order: OrderStatus.objects.create(order=order, status="cancelled")
CancelLog(h) ==
    /\ hpc[h] = "co_log"
    /\ events' = Append(events, [order |-> hloc[h].order, status |-> "cancelled"])
    /\ Answer(h, "200")
    /\ UNCHANGED <<stock, price, orders, items, nextId, req, pc, idx, tx, lock,
                   result, stock0, jobVars, pipeVars>>

\* the OrderItem rows the table holds when the item endpoint is in use
MaxItems == 3

\* OrderItemViewSet.create: is_valid (the order and the product exist), the
\* comparison with product.stock_quantity, serializer.save(); the product row
\* is read and not written.  total_price is read-only in the serializer: the
\* row carries unit_price * quantity
OrderItemCreate(h, o, p, q, v) ==
    /\ hpc[h] = "idle"
    /\ Len(items) < MaxItems
    /\ IF stock[p] < q
       THEN /\ Answer(h, "400")
            /\ UNCHANGED items
       ELSE /\ items' = Append(items, ItemRow(o, p, q, v))
            /\ Answer(h, "201")
    /\ UNCHANGED <<stock, price, orders, events, nextId, req, pc, idx, tx, lock,
                   result, stock0, jobVars, pipeVars>>

\* OrderStatusViewSet.create: the exists() query for a row of this order with
\* this status
StatusEventCheck(h, o, s) ==
    /\ hpc[h] = "idle"
    /\ IF \E i \in 1..Len(events) : events[i].order = o /\ events[i].status = s
       THEN Answer(h, "400")
       ELSE /\ Room
            /\ hpc' = [hpc EXCEPT ![h] = "se_insert"]
            /\ hloc' = [hloc EXCEPT ![h] = Local(o, s)]
            /\ hres' = [hres EXCEPT ![h] = ""]
    /\ UNCHANGED <<dbVars, nextId, req, pc, idx, tx, lock, result, stock0, jobVars, pipeVars>>

\* OrderStatusViewSet.create: serializer.save(created_by=request.user); the
\* order row is not touched
StatusEventInsert(h) ==
    /\ hpc[h] = "se_insert"
    /\ events' = Append(events, [order |-> hloc[h].order, status |-> hloc[h].status])
    /\ Answer(h, "201")
    /\ UNCHANGED <<stock, price, orders, items, nextId, req, pc, idx, tx, lock,
                   result, stock0, jobVars, pipeVars>>

----------------------------------------------------------------------------
(* The stock endpoint and the stock jobs.  No transaction; a save() of a
   product row waits while a transaction holds the row's lock. *)

\* the quantity a client posts to update_stock
StockInputs == {-1, 3}
\* the quantity of an update_product_stock job
JobQuantities == {2, 5}
\* the "stock" of an external payload: one value, or none
ExtStocks == {<<>>, <<3>>}
\* the "price" of an external payload: one value, or none
ExtPrices == {<<>>, <<2500>>}
\* the periodic sync job runs on one worker, the stock jobs on the others
SyncWorkers == {1}
UpsWorkers == Workers \ SyncWorkers

Max(a, b) == IF a >= b THEN a ELSE b

\* ProductViewSet.update_stock: product.stock_quantity = quantity; product.save()
UpdateStock(p, q) ==
    /\ lock[p] = 0
    /\ stock' = [stock EXCEPT ![p] = q]
    /\ UNCHANGED <<price, orders, items, events, nextId, req, pc, idx, tx, lock,
                   result, stock0, statusVars, jobVars, pipeVars>>

\* the price a client sends to the product endpoint
PriceInputs == {0, 2500}

\* a mutant of UpdatePrice: the order items of the product are repriced too
UpdatePriceAndItems(p, v) ==
    /\ lock[p] = 0
    /\ price' = [price EXCEPT ![p] = v]
    /\ items' = [i \in DOMAIN items |->
                   IF items[i].product = p
                      THEN ItemRow(items[i].order, p, items[i].quantity, v)
                      ELSE items[i]]
    /\ UNCHANGED <<stock, orders, events, nextId, req, pc, idx, tx, lock,
                   result, stock0, statusVars, jobVars, pipeVars>>

\* ProductViewSet partial_update with a price: the serializer saves the
\* product row, and no other table
UpdatePrice(p, v) ==
    /\ lock[p] = 0
    /\ price' = [price EXCEPT ![p] = v]
    /\ UNCHANGED <<stock, orders, items, events, nextId, req, pc, idx, tx, lock,
                   result, stock0, statusVars, jobVars, pipeVars>>

\* max(0, product.stock_quantity - quantity)
Clamped(old, quantity) == Max(0, old - quantity)

\* update_product_stock: Product.objects.get
UpsRead(w, p, q) ==
    /\ wpc[w] = "idle"
    /\ wpc' = [wpc EXCEPT ![w] = "ups_write"]
    /\ wloc' = [wloc EXCEPT ![w] =
                  [NoJob EXCEPT !.product = p, !.quantity = q,
                                !.snapStock[p] = stock[p], !.snapPrice[p] = price[p]]]
    /\ UNCHANGED <<dbVars, nextId, req, pc, idx, tx, lock, result, stock0,
                   statusVars, alerted, pipeVars>>

\* update_product_stock: the clamped subtraction, product.save() of the row as
\* it was read, and the low stock notification
UpsWrite(w) ==
    /\ wpc[w] = "ups_write"
    /\ LET p == wloc[w].product
           new == Clamped(wloc[w].snapStock[p], wloc[w].quantity)
       IN  /\ lock[p] = 0
           /\ stock' = [stock EXCEPT ![p] = new]
           /\ price' = [price EXCEPT ![p] = wloc[w].snapPrice[p]]
           /\ alerted' = IF new <= 0 THEN alerted \cup {p} ELSE alerted
    /\ wpc' = [wpc EXCEPT ![w] = "idle"]
    /\ wloc' = [wloc EXCEPT ![w] = NoJob]
    /\ UNCHANGED <<orders, items, events, nextId, req, pc, idx, tx, lock, result,
                   stock0, statusVars, pipeVars>>

\* sync_external_inventory: the vendor's products are read when the loop starts
SyncStart(w) ==
    /\ wpc[w] = "idle"
    /\ wpc' = [wpc EXCEPT ![w] = "sync"]
    /\ wloc' = [wloc EXCEPT ![w] =
                  [NoJob EXCEPT !.i = 1, !.snapStock = stock, !.snapPrice = price]]
    /\ UNCHANGED <<dbVars, nextId, req, pc, idx, tx, lock, result, stock0,
                   statusVars, alerted, pipeVars>>

\* the rows still to come in the loop: those already passed are not read again
Rest(rows, i) == [p \in Products |-> IF p > i THEN rows[p] ELSE 0]

\* data.get(key, current): the payload's value, or the row's when the payload
\* has none
SyncedAdded(current, got) == IF got = <<>> THEN current ELSE current + got[1]
Synced(current, got) == IF got = <<>> THEN current ELSE got[1]

\* one pass of "for product in products": requests.get, then on a 200 the
\* payload's stock and price, or the values read at the start, are saved
SyncPass(w, answer, extStock, extPrice) ==
    /\ wpc[w] = "sync"
    /\ wloc[w].i <= NumProducts
    /\ LET p == wloc[w].i
           next == [wloc EXCEPT ![w].i = p + 1,
                                ![w].snapStock = Rest(@, p),
                                ![w].snapPrice = Rest(@, p)]
       IN  CASE answer = "200" ->
                  /\ lock[p] = 0
                  /\ stock' = [stock EXCEPT ![p] = Synced(wloc[w].snapStock[p], extStock)]
                  /\ price' = [price EXCEPT ![p] = Synced(wloc[w].snapPrice[p], extPrice)]
                  /\ wloc' = next
                  /\ UNCHANGED wpc
             [] answer = "404" ->
                  /\ wloc' = next
                  /\ UNCHANGED <<stock, price, wpc>>
             [] OTHER ->
                  \* requests.get raised: the except clause ends this run
                  /\ wpc' = [wpc EXCEPT ![w] = "idle"]
                  /\ wloc' = [wloc EXCEPT ![w] = NoJob]
                  /\ UNCHANGED <<stock, price>>
    /\ UNCHANGED <<orders, items, events, nextId, req, pc, idx, tx, lock, result,
                   stock0, statusVars, alerted, queueVars, cleanupVars, ext>>

SyncProduct(w, answer, extStock, extPrice) ==
    /\ SyncPass(w, answer, extStock, extPrice)
    /\ UNCHANGED <<syncRuns, afterFirst>>

\* the loop is over
SyncReturn(w) ==
    /\ wpc[w] = "sync"
    /\ wloc[w].i > NumProducts
    /\ wpc' = [wpc EXCEPT ![w] = "idle"]
    /\ wloc' = [wloc EXCEPT ![w] = NoJob]
    /\ UNCHANGED <<dbVars, nextId, req, pc, idx, tx, lock, result, stock0,
                   statusVars, alerted, queueVars, cleanupVars, ext>>

SyncEnd(w) ==
    /\ SyncReturn(w)
    /\ UNCHANGED <<syncRuns, afterFirst>>

(* cleanup_old_orders.  The filter is a lazy QuerySet: count() runs it once,
   and delete() runs it again to collect the orders and the rows that
   reference them, then deletes what it collected by primary key.  The
   collecting SELECT takes no lock, so other requests write between it and
   the DELETE. *)

CleanupWorkers == {1}

\* time passes: the order is now older than the cutoff
Age(o) ==
    /\ o \notin aged
    /\ aged' = aged \cup {o}
    /\ UNCHANGED <<dbVars, nextId, req, pc, idx, tx, lock, result, stock0,
                   statusVars, jobVars, queueVars, doomed, syncVars>>

\* filter(created_at__lt=cutoff_date, status__in=['delivered', 'cancelled'])
OldOrders ==
    {o \in DOMAIN orders : o \in aged /\ orders[o].status \in {"delivered", "cancelled"}}

\* old_orders.delete(): the orders are collected
CleanupCollect(w) ==
    /\ wpc[w] = "idle"
    /\ wpc' = [wpc EXCEPT ![w] = "cleanup"]
    /\ doomed' = OldOrders
    /\ UNCHANGED <<dbVars, nextId, req, pc, idx, tx, lock, result, stock0,
                   statusVars, wloc, alerted, queueVars, aged, syncVars>>

\* old_orders.delete(): the collected orders are deleted with their items and
\* status rows
CleanupDelete(w) ==
    /\ wpc[w] = "cleanup"
    /\ orders' = [o \in DOMAIN orders \ doomed |-> orders[o]]
    /\ items' = SelectSeq(items, LAMBDA it : it.order \notin doomed)
    /\ events' = SelectSeq(events, LAMBDA e : e.order \notin doomed)
    /\ doomed' = {}
    /\ wpc' = [wpc EXCEPT ![w] = "idle"]
    /\ UNCHANGED <<stock, price, nextId, req, pc, idx, tx, lock, result, stock0,
                   statusVars, wloc, alerted, queueVars, aged, syncVars>>

(* The same job run again on the same external answers: the answers are fixed
   for each product (ext), and the runs that have ended are counted. *)

MaxRuns == 2

\* a run has ended: by its return, or in the except clause
RunEnded ==
    /\ syncRuns' = syncRuns + 1
    /\ afterFirst' = IF syncRuns = 0 THEN <<stock', price'>> ELSE afterFirst

ReplayStart(w) ==
    /\ syncRuns < MaxRuns
    /\ SyncStart(w)

ReplayProduct(w) ==
    /\ wpc[w] = "sync"
    /\ wloc[w].i <= NumProducts
    /\ LET e == ext[wloc[w].i]
       IN  /\ SyncPass(w, e.answer, e.stock, e.price)
           /\ IF e.answer \in {"200", "404"}
                 THEN UNCHANGED <<syncRuns, afterFirst>>
                 ELSE RunEnded

ReplayReturn(w) ==
    /\ SyncReturn(w)
    /\ RunEnded

----------------------------------------------------------------------------
(* The task queue.  A task called with .delay() is a message on the broker;
   a worker runs the handler of a message whose eta has passed.  Every handler
   is "try: ... except Exception as e: raise self.retry(exc=e)": a failure
   publishes the message again with one more retry and the eta a
   default_retry_delay later, until max_retries is used up, when the task
   ends in the FAILURE state. *)

MaxJobs == 4

TaskTypes ==
    {"process_order_items", "update_product_stock", "send_order_confirmation_email"}

\* @app.task(bind=True, max_retries=...)
max_retries(task) ==
    CASE task = "send_order_confirmation_email" -> 3
      [] task = "update_product_stock" -> 5
      [] task = "process_order_items" -> 3

\* @app.task(bind=True, default_retry_delay=...), in seconds
default_retry_delay(task) ==
    CASE task = "send_order_confirmation_email" -> 60
      [] task = "update_product_stock" -> 30
      [] task = "process_order_items" -> 60

\* task.delay(arg) or task.delay(arg, quantity): the message as published;
\* runs (history) counts the times its handler was started
NewJob(task, arg, quantity) ==
    [task |-> task, arg |-> arg, quantity |-> quantity, retries |-> 0,
     wait |-> 0, state |-> "queued", runs |-> 0]

Eligible(j) == jobs[j].state = "queued" /\ jobs[j].wait = 0

\* the worker takes the message and starts its handler
Started(j) == [jobs[j] EXCEPT !.state = "running", !.runs = @ + 1]

Success(job) == [job EXCEPT !.state = "succeeded"]

\* a mutant of Retry: one retry more than max_retries
RetryOnceMore(job) ==
    IF job.retries <= max_retries(job.task)
    THEN [job EXCEPT !.retries = @ + 1, !.state = "queued",
                     !.wait = default_retry_delay(job.task)]
    ELSE [job EXCEPT !.state = "failed"]

\* a mutant of Retry: the message is not published again and the task is not
\* ended either
RetryStuck(job) == [job EXCEPT !.retries = @ + 1]

\* raise self.retry(exc=e)
Retry(job) ==
    IF job.retries < max_retries(job.task)
    THEN [job EXCEPT !.retries = @ + 1, !.state = "queued",
                     !.wait = default_retry_delay(job.task)]
    ELSE [job EXCEPT !.state = "failed"]

\* a mutant of OrderVisible: the rows of transactions still open are read too
OrderVisibleUncommitted(o) ==
    o \in DOMAIN orders \/ \E r \in Requests : tx[r].oid = o /\ pc[r] = "loop"

\* Order.objects.get(id=order_id) finds the committed rows
OrderVisible(o) == o \in DOMAIN orders

\* the deliveries of process_order_items from outside
MaxDeliveries == 2

Delivered == Len(SelectSeq(jobs, LAMBDA job : job.task = "process_order_items"))

\* a caller's process_order_items.delay(order_id)
ProcessOrderItemsDelay(o) ==
    /\ Len(jobs) < MaxJobs
    /\ Delivered < MaxDeliveries
    /\ jobs' = Append(jobs, NewJob("process_order_items", o, 0))
    /\ UNCHANGED <<dbVars, nextId, req, pc, idx, tx, lock, result, stock0,
                   statusVars, jobVars, wjob, cleanupVars, syncVars>>

\* the messages process_order_items publishes for order o, in order
Published(o) ==
    LET its == ItemsOf(o)
    IN  [i \in 1..Len(its) |->
            NewJob("update_product_stock", its[i].product, its[i].quantity)]
        \o <<NewJob("send_order_confirmation_email", o, 0)>>

\* process_order_items: Order.objects.get, one update_product_stock.delay for
\* each item, send_order_confirmation_email.delay; the first `published` of
\* these calls go through and the next one, if any, raises
ProcessOrderItems(j, published) ==
    /\ Eligible(j)
    /\ jobs[j].task = "process_order_items"
    /\ LET job == Started(j)
           o == job.arg
       IN  IF ~OrderVisible(o)
           THEN /\ published = 0
                /\ jobs' = [jobs EXCEPT ![j] = Retry(job)]
           ELSE /\ published \in 0..Len(Published(o))
                /\ Len(jobs) + published <= MaxJobs
                /\ jobs' = [jobs EXCEPT ![j] =
                               IF published = Len(Published(o))
                               THEN Success(job) ELSE Retry(job)]
                           \o SubSeq(Published(o), 1, published)
    /\ UNCHANGED <<dbVars, nextId, req, pc, idx, tx, lock, result, stock0,
                   statusVars, jobVars, wjob, cleanupVars, syncVars>>

\* the update_product_stock messages a caller publishes directly
MaxAdjusts == 2

Adjusted == Len(SelectSeq(jobs, LAMBDA job : job.task = "update_product_stock"))

\* a caller's update_product_stock.delay(product_id, quantity)
UpdateProductStockDelay(p, q) ==
    /\ Len(jobs) < MaxJobs
    /\ Adjusted < MaxAdjusts
    /\ jobs' = Append(jobs, NewJob("update_product_stock", p, q))
    /\ UNCHANGED <<dbVars, nextId, req, pc, idx, tx, lock, result, stock0,
                   statusVars, jobVars, wjob, cleanupVars, syncVars>>

\* update_product_stock run from the queue: Product.objects.get
TaskUpsRead(w, j) ==
    /\ wpc[w] = "idle"
    /\ Eligible(j)
    /\ jobs[j].task = "update_product_stock"
    /\ jobs' = [jobs EXCEPT ![j] = Started(j)]
    /\ wjob' = [wjob EXCEPT ![w] = j]
    /\ wpc' = [wpc EXCEPT ![w] = "task_ups_write"]
    /\ LET p == jobs[j].arg
       IN  wloc' = [wloc EXCEPT ![w] =
                      [NoJob EXCEPT !.product = p, !.quantity = jobs[j].quantity,
                                    !.snapStock[p] = stock[p],
                                    !.snapPrice[p] = price[p]]]
    /\ UNCHANGED <<dbVars, nextId, req, pc, idx, tx, lock, result, stock0,
                   statusVars, alerted, cleanupVars, syncVars>>

\* update_product_stock run from the queue: the clamped subtraction and
\* product.save(); at stock 0 send_low_stock_notification.delay, which goes
\* through (published) or raises after the save
TaskUpsWrite(w, published) ==
    /\ wpc[w] = "task_ups_write"
    /\ LET j == wjob[w]
           p == wloc[w].product
           new == Clamped(wloc[w].snapStock[p], wloc[w].quantity)
       IN  /\ lock[p] = 0
           /\ stock' = [stock EXCEPT ![p] = new]
           /\ price' = [price EXCEPT ![p] = wloc[w].snapPrice[p]]
           /\ new > 0 => published
           /\ alerted' = IF new <= 0 /\ published THEN alerted \cup {p} ELSE alerted
           /\ jobs' = [jobs EXCEPT ![j] =
                          IF published THEN Success(jobs[j]) ELSE Retry(jobs[j])]
    /\ wpc' = [wpc EXCEPT ![w] = "idle"]
    /\ wloc' = [wloc EXCEPT ![w] = NoJob]
    /\ wjob' = [wjob EXCEPT ![w] = 0]
    /\ UNCHANGED <<orders, items, events, nextId, req, pc, idx, tx, lock, result,
                   stock0, statusVars, cleanupVars, syncVars>>

\* send_order_confirmation_email: Order.objects.get, then send_mail, which
\* goes through (sent) or raises
SendOrderConfirmationEmail(j, sent) ==
    /\ Eligible(j)
    /\ jobs[j].task = "send_order_confirmation_email"
    /\ jobs' = [jobs EXCEPT ![j] =
                   IF OrderVisible(jobs[j].arg) /\ sent
                   THEN Success(Started(j)) ELSE Retry(Started(j))]
    /\ UNCHANGED <<dbVars, nextId, req, pc, idx, tx, lock, result, stock0,
                   statusVars, jobVars, wjob, cleanupVars, syncVars>>

\* the messages waiting for their eta
Waiting == {j \in 1..Len(jobs) : jobs[j].state = "queued" /\ jobs[j].wait > 0}

\* time passes until the next eta
Tick ==
    /\ Waiting # {}
    /\ LET d == CHOOSE d \in {jobs[j].wait : j \in Waiting} :
                    \A j \in Waiting : d <= jobs[j].wait
       IN  jobs' = [j \in 1..Len(jobs) |->
                      IF j \in Waiting THEN [jobs[j] EXCEPT !.wait = @ - d]
                                       ELSE jobs[j]]
    /\ UNCHANGED <<dbVars, nextId, req, pc, idx, tx, lock, result, stock0,
                   statusVars, jobVars, wjob, cleanupVars, syncVars>>

----------------------------------------------------------------------------

Next ==
    \E r \in Requests :
        \/ GrpcBegin(r)
        \/ GrpcItem(r)
        \/ GrpcCommit(r)
        \/ GqlBegin(r)
        \/ GqlItem(r)
        \/ GqlFinish(r)
        \/ RestBegin(r)
        \/ RestItem(r)
        \/ RestFinish(r)

Spec == Init /\ [][Next]_vars

\* The status endpoints, on the order one gRPC request places.
StatusReqMenu ==
    {[adapter |-> "grpc", missing |-> "none", client |-> <<0, 0, 0>>,
      lines |-> <<[product |-> 1, quantity |-> 2]>>],
     [adapter |-> "grpc", missing |-> "none", client |-> <<0, 0, 0>>,
      lines |-> <<[product |-> 1, quantity |-> 2], [product |-> 2, quantity |-> 5]>>]}

\* one request of the menu, the other requests never sent
OneRequest(menu) ==
    /\ stock = [p \in Products |-> 5]
    /\ price = [p \in Products |-> InitPrice(p)]
    /\ orders = <<>>
    /\ items = <<>>
    /\ events = <<>>
    /\ nextId = 1
    /\ \E m \in menu : req = [r \in Requests |-> m]
    /\ pc = [r \in Requests |-> IF r = 1 THEN "start" ELSE "unused"]
    /\ idx = [r \in Requests |-> 0]
    /\ tx = [r \in Requests |-> NoTx]
    /\ lock = [p \in Products |-> 0]
    /\ result = [r \in Requests |-> ""]
    /\ stock0 = stock
    /\ Idle

InitStatus == OneRequest(StatusReqMenu)

NextStatus ==
    \/ \E r \in Requests :
          \/ GrpcBegin(r)
          \/ GrpcItem(r)
          \/ GrpcCommit(r)
    \/ \E h \in Handlers :
          \/ \E o \in DOMAIN orders, s \in Statuses : UpdateStatusSave(h, o, s)
          \/ UpdateStatusLog(h)
          \/ \E o \in DOMAIN orders : CancelCheck(h, o)
          \/ CancelSave(h)
          \/ CancelLog(h)
          \/ \E o \in DOMAIN orders, s \in Statuses : StatusEventCheck(h, o, s)
          \/ StatusEventInsert(h)

SpecStatus == InitStatus /\ [][NextStatus]_vars

\* The stock endpoint and the stock jobs, beside one gRPC placement; the
\* external payloads carry a stock or nothing.
InventoryReqMenu ==
    {[adapter |-> "grpc", missing |-> "none", client |-> <<0, 0, 0>>,
      lines |-> <<[product |-> 1, quantity |-> 2]>>],
     [adapter |-> "grpc", missing |-> "none", client |-> <<0, 0, 0>>,
      lines |-> <<[product |-> 1, quantity |-> 5]>>]}

InitInventory == OneRequest(InventoryReqMenu)

NextInventory ==
    \/ \E r \in Requests :
          \/ GrpcBegin(r)
          \/ GrpcItem(r)
          \/ GrpcCommit(r)
    \/ \E p \in Products, q \in StockInputs : UpdateStock(p, q)
    \/ \E w \in UpsWorkers :
          \/ \E p \in Products, q \in JobQuantities : UpsRead(w, p, q)
          \/ UpsWrite(w)
    \/ \E w \in SyncWorkers :
          \/ SyncStart(w)
          \/ \E answer \in {"200", "404", "error"}, extStock \in ExtStocks :
                SyncProduct(w, answer, extStock, <<>>)
          \/ SyncEnd(w)

SpecInventory == InitInventory /\ [][NextInventory]_vars

\* Price changes beside one gRPC placement: the product endpoint, and the
\* sync job on payloads that carry a price and no stock.
InitPrices == OneRequest(InventoryReqMenu)

NextPrices ==
    \/ \E r \in Requests :
          \/ GrpcBegin(r)
          \/ GrpcItem(r)
          \/ GrpcCommit(r)
    \/ \E p \in Products, v \in PriceInputs : UpdatePrice(p, v)
    \/ \E w \in SyncWorkers :
          \/ SyncStart(w)
          \/ \E answer \in {"200", "404", "error"}, extPrice \in ExtPrices :
                SyncProduct(w, answer, <<>>, extPrice)
          \/ SyncEnd(w)

SpecPrices == InitPrices /\ [][NextPrices]_vars

\* update_product_stock jobs on every worker beside one gRPC placement; the
\* broker takes every message.
InitAdjust == OneRequest(InventoryReqMenu)

NextAdjust ==
    \/ \E r \in Requests :
          \/ GrpcBegin(r)
          \/ GrpcItem(r)
          \/ GrpcCommit(r)
    \/ \E p \in Products, q \in JobQuantities : UpdateProductStockDelay(p, q)
    \/ \E w \in Workers :
          \/ \E j \in 1..Len(jobs) : TaskUpsRead(w, j)
          \/ TaskUpsWrite(w, TRUE)

SpecAdjust == InitAdjust /\ [][NextAdjust]_vars

\* The order item endpoint and cancel_order, on the order one gRPC request
\* places: nothing here adjusts, syncs or restocks a product.
InitItems == OneRequest(InventoryReqMenu)

NextItems ==
    \/ \E r \in Requests :
          \/ GrpcBegin(r)
          \/ GrpcItem(r)
          \/ GrpcCommit(r)
    \/ \E h \in Handlers :
          \/ \E o \in DOMAIN orders, p \in Products, q \in JobQuantities,
                v \in PriceInputs : OrderItemCreate(h, o, p, q, v)
          \/ \E o \in DOMAIN orders : CancelCheck(h, o)
          \/ CancelSave(h)
          \/ CancelLog(h)

SpecItems == InitItems /\ [][NextItems]_vars

\* cleanup_old_orders beside update_status, on the order one gRPC request
\* places.
InitCleanup == OneRequest(StatusReqMenu)

NextCleanup ==
    \/ \E r \in Requests :
          \/ GrpcBegin(r)
          \/ GrpcItem(r)
          \/ GrpcCommit(r)
    \/ \E h \in Handlers :
          \/ \E o \in DOMAIN orders, s \in Statuses : UpdateStatusSave(h, o, s)
          \/ UpdateStatusLog(h)
    \/ \E o \in DOMAIN orders : Age(o)
    \/ \E w \in CleanupWorkers :
          \/ CleanupCollect(w)
          \/ CleanupDelete(w)

SpecCleanup == InitCleanup /\ [][NextCleanup]_vars

\* sync_external_inventory run MaxRuns times, one run after the other, on
\* the same external answers and with nothing else writing the products.
ExtAnswers ==
    [answer : {"200"}, stock : ExtStocks, price : ExtPrices]
        \cup {NoAnswer, [NoAnswer EXCEPT !.answer = "error"]}

InitSync ==
    /\ stock \in [Products -> InitStocks]
    /\ price = [p \in Products |-> InitPrice(p)]
    /\ orders = <<>>
    /\ items = <<>>
    /\ events = <<>>
    /\ nextId = 1
    /\ req = [r \in Requests |-> CHOOSE m \in InventoryReqMenu : TRUE]
    /\ pc = [r \in Requests |-> "unused"]
    /\ idx = [r \in Requests |-> 0]
    /\ tx = [r \in Requests |-> NoTx]
    /\ lock = [p \in Products |-> 0]
    /\ result = [r \in Requests |-> ""]
    /\ stock0 = stock
    /\ hpc = [h \in Handlers |-> "idle"]
    /\ hloc = [h \in Handlers |-> NoLocal]
    /\ hres = [h \in Handlers |-> ""]
    /\ wpc = [w \in Workers |-> "idle"]
    /\ wloc = [w \in Workers |-> NoJob]
    /\ alerted = {}
    /\ jobs = <<>>
    /\ wjob = [w \in Workers |-> 0]
    /\ aged = {}
    /\ doomed = {}
    /\ ext \in [Products -> ExtAnswers]
    /\ syncRuns = 0
    /\ afterFirst = <<>>

NextSync ==
    \E w \in SyncWorkers :
        \/ ReplayStart(w)
        \/ ReplayProduct(w)
        \/ ReplayReturn(w)

SpecSync == InitSync /\ [][NextSync]_vars

\* The task queue beside one gRPC placement: the worked example (quantity 3
\* of product 1) or an order for more than a stock of 3 holds.
PipelineReqMenu ==
    {[adapter |-> "grpc", missing |-> "none", client |-> <<0, 0, 0>>,
      lines |-> <<[product |-> 1, quantity |-> q]>>] : q \in {3, 5}}

\* the starting stock of every product and the request
PipelineCases ==
    {<<n, m>> \in {3, 10} \X PipelineReqMenu : n = 10 => m.lines[1].quantity = 3}

InitPipeline ==
    /\ \E c \in PipelineCases :
          /\ stock = [p \in Products |-> c[1]]
          /\ req = [r \in Requests |-> c[2]]
    /\ price = [p \in Products |-> InitPrice(p)]
    /\ orders = <<>>
    /\ items = <<>>
    /\ events = <<>>
    /\ nextId = 1
    /\ pc = [r \in Requests |-> IF r = 1 THEN "start" ELSE "unused"]
    /\ idx = [r \in Requests |-> 0]
    /\ tx = [r \in Requests |-> NoTx]
    /\ lock = [p \in Products |-> 0]
    /\ result = [r \in Requests |-> ""]
    /\ stock0 = stock
    /\ Idle

NextPipeline ==
    \/ \E r \in Requests :
          \/ GrpcBegin(r)
          \/ GrpcItem(r)
          \/ GrpcCommit(r)
    \/ \E o \in Requests : ProcessOrderItemsDelay(o)
    \/ \E j \in 1..Len(jobs), published \in 0..(MaxLines + 1) :
          ProcessOrderItems(j, published)
    \/ \E w \in UpsWorkers, j \in 1..Len(jobs) : TaskUpsRead(w, j)
    \/ \E w \in UpsWorkers, published \in BOOLEAN : TaskUpsWrite(w, published)
    \/ \E j \in 1..Len(jobs), sent \in BOOLEAN : SendOrderConfirmationEmail(j, sent)
    \/ Tick

SpecPipeline == InitPipeline /\ [][NextPipeline]_vars

\* The same under fairness: a request that has arrived is handled, a worker
\* that can take or go on with a message does, and time passes.  The callers
\* of process_order_items are under no obligation.
FairPipeline ==
    /\ WF_vars(\E r \in Requests : GrpcBegin(r) \/ GrpcItem(r) \/ GrpcCommit(r))
    /\ WF_vars(\E j \in 1..Len(jobs), published \in 0..(MaxLines + 1) :
                  ProcessOrderItems(j, published))
    /\ WF_vars(\E w \in UpsWorkers, j \in 1..Len(jobs) : TaskUpsRead(w, j))
    /\ WF_vars(\E w \in UpsWorkers, published \in BOOLEAN : TaskUpsWrite(w, published))
    /\ WF_vars(\E j \in 1..Len(jobs), sent \in BOOLEAN :
                  SendOrderConfirmationEmail(j, sent))
    /\ WF_vars(Tick)

SpecPipelineFair == SpecPipeline /\ FairPipeline

----------------------------------------------------------------------------
(* What the claims speak of *)

RECURSIVE SumTotalPrice(_)
SumTotalPrice(its) ==
    IF its = <<>> THEN 0 ELSE Head(its).total_price + SumTotalPrice(Tail(its))

\* the quantity of product p over the persisted order items
Sold(p) == SumQuantity(SelectSeq(items, LAMBDA it : it.product = p))

\* the quantity of product p request r asks for
Asked(r, p) ==
    SumQuantity(SelectSeq(req[r].lines, LAMBDA l : l.product = p))

\* the quantity of product p a gRPC placement that succeeded took
Reserved(r, p) ==
    IF req[r].adapter = "grpc" /\ result[r] = "OK" THEN Asked(r, p) ELSE 0

RECURSIVE ReservedBy(_, _)
ReservedBy(rs, p) ==
    IF rs = {} THEN 0
    ELSE LET r == CHOOSE x \in rs : TRUE
         IN  Reserved(r, p) + ReservedBy(rs \ {r}, p)

Done(r) == pc[r] = "done"
Failed(r) == Done(r) /\ result[r] # "OK"
Succeeded(r) == Done(r) /\ result[r] = "OK"

----------------------------------------------------------------------------
(* Claims, checked under Spec *)

\* C1: when every request of the run is a gRPC or GraphQL PlaceOrder for
\* quantity 5 of one product that started with stock 5, then once all have answered exactly one
\* has succeeded, the others have failed with insufficient stock and the
\* product's stock is 0.
C1_ExactlyOneSucceeds ==
    \A p \in Products :
        (/\ stock0[p] = 5
         /\ \A r \in Requests :
                /\ req[r].adapter \in {"grpc", "graphql"}
                /\ req[r].missing = "none"
                /\ req[r].lines = <<[product |-> p, quantity |-> 5]>>
                /\ Done(r))
        => /\ Cardinality({r \in Requests : result[r] = "OK"}) = 1
           /\ \A r \in Requests : result[r] \in {"OK", "FAILED_PRECONDITION"}
           /\ stock[p] = 0

\* C1, for the gRPC handler alone: the statement of C1 with every request a
\* gRPC CreateOrder.
C1_GrpcExactlyOneSucceeds ==
    (\A r \in Requests : req[r].adapter = "grpc") => C1_ExactlyOneSucceeds

\* C3: a PlaceOrder that failed has left no order row and no order item; every
\* order item belongs to a visible order; a visible order has an item for each
\* of its lines; and the stock taken from a product is the quantity of its
\* persisted order items.
C3_NoPartialState ==
    /\ \A r \in Requests :
          Failed(r) => tx[r].oid \notin DOMAIN orders /\ ItemsOf(tx[r].oid) = <<>>
    /\ \A i \in 1..Len(items) : items[i].order \in DOMAIN orders
    /\ \A r \in Requests :
          tx[r].oid \in DOMAIN orders => Len(ItemsOf(tx[r].oid)) = Len(req[r].lines)
    /\ \A p \in Products : stock0[p] - stock[p] = Sold(p)

\* C4: a gRPC PlaceOrder with two lines that failed for insufficient stock at
\* its second line has persisted no Order and no OrderItem row, and the stock
\* of its first line's product is the starting stock less what the other,
\* successful placements reserved: the failed call took nothing.
C4_RollbackRestores ==
    \A r \in Requests :
        (/\ req[r].adapter = "grpc"
         /\ Len(req[r].lines) = 2
         /\ Done(r)
         /\ result[r] = "FAILED_PRECONDITION"
         /\ idx[r] = 2)
        => LET p1 == req[r].lines[1].product
           IN  /\ tx[r].oid \notin DOMAIN orders
               /\ ItemsOf(tx[r].oid) = <<>>
               /\ stock[p1] = stock0[p1] - ReservedBy(Requests \ {r}, p1)

\* C4's case: the first line was reserved, the second line names another
\* product and failed for insufficient stock.
C4_Witness ==
    \E r \in Requests :
        /\ req[r].adapter = "grpc"
        /\ Len(req[r].lines) = 2
        /\ req[r].lines[1].product # req[r].lines[2].product
        /\ Done(r)
        /\ result[r] = "FAILED_PRECONDITION"
        /\ idx[r] = 2

\* C5: a PlaceOrder with lines that succeeded has persisted an order whose
\* total_amount is subtotal + tax_amount + shipping_cost, whose items'
\* total_price sum to its subtotal, each item's total_price being
\* unit_price * quantity.
C5_TotalsAddUp ==
    \A r \in Requests :
        (Succeeded(r) /\ Len(req[r].lines) > 0)
        => /\ tx[r].oid \in DOMAIN orders
           /\ LET o == orders[tx[r].oid]
                  its == ItemsOf(tx[r].oid)
              IN  /\ o.total_amount = o.subtotal + o.tax_amount + o.shipping_cost
                  /\ SumTotalPrice(its) = o.subtotal
                  /\ \A i \in 1..Len(its) :
                        its[i].total_price = its[i].unit_price * its[i].quantity

\* C5's case: a placement of two lines succeeded with a subtotal above zero.
C5_Witness ==
    \E r \in Requests :
        /\ Succeeded(r)
        /\ Len(req[r].lines) = 2
        /\ tx[r].oid \in DOMAIN orders
        /\ orders[tx[r].oid].subtotal > 0
        /\ orders[tx[r].oid].tax_amount > 0

\* C10: every persisted order has an OrderStatus row, its first one has
\* status pending, and its latest one has the order's status.
C10_EventMatchesStatus ==
    \A o \in DOMAIN orders :
        LET es == EventsOf(o)
        IN  /\ es # <<>>
            /\ es[1].status = "pending"
            /\ es[Len(es)].status = orders[o].status

------------------------------------------------------------\* the outcome of a request, by what it means and not by the adapter's name
\* for it; a row that is not there and a value that is not valid both count
\* as the input refused
Outcome(r) ==
    CASE result[r] = "OK" -> "placed"
      [] result[r] \in {"NOT_FOUND", "DoesNotExist", "INVALID_ARGUMENT",
                        "GraphQLError", "ValidationError"} -> "input refused"
      [] result[r] = "FAILED_PRECONDITION" -> "insufficient stock"
      [] OTHER -> "internal error"

\* the stock holds what both requests ask for, whichever comes first
Ample(r1, r2) == \A p \in Products : Asked(r1, p) + Asked(r2, p) <= stock0[p]

\* C19: two requests with the same input through different adapters, on a
\* stock that holds both, have the same outcome once both have answered; when
\* they were placed their orders carry the same subtotal, tax_amount,
\* shipping_cost and total_amount, and each took from the stock what the
\* other took: the quantity asked when placed, nothing otherwise.
C19_AdaptersAgree ==
    \A r1, r2 \in Requests :
        /\ req[r1].adapter # req[r2].adapter
        /\ req[r1].lines = req[r2].lines
        /\ req[r1].missing = req[r2].missing
        /\ req[r1].client = req[r2].client
        /\ Ample(r1, r2)
        /\ Done(r1) /\ Done(r2)
        => /\ Outcome(r1) = Outcome(r2)
           /\ Succeeded(r1) => orders[tx[r1].oid] = orders[tx[r2].oid]
           /\ \A p \in Products :
                 stock[p] = stock0[p] - (IF Succeeded(r1) THEN 2 * Asked(r1, p) ELSE 0)

\* request r is in "for item in request.items" at a product whose row lock
\* request s holds
WaitsFor(r, s) ==
    /\ req[r].adapter = "grpc"
    /\ pc[r] = "loop"
    /\ idx[r] <= Len(req[r].lines)
    /\ req[r].lines[idx[r]].product \in Products
    /\ lock[req[r].lines[idx[r]].product] = s

\* C22: no two placements each wait for a product lock the other holds.
C22_NoDeadlock ==
    \A r1, r2 \in Requests : r1 # r2 => ~(WaitsFor(r1, r2) /\ WaitsFor(r2, r1))

\* C22, the order of acquisition alone: a placement that takes a product's
\* lock holds no lock of a product with a greater id.
C22_AscendingLocks ==
    [][\A r \in Requests, p \in Products :
          lock[p] # r /\ lock'[p] = r
              => \A q \in Products : lock[q] = r => q < p]_vars

\* request r has a line with a quantity that is not positive
NonPositive(r) ==
    \E i \in 1..Len(req[r].lines) : req[r].lines[i].quantity <= 0

\* C24: a gRPC or GraphQL placement with a non-positive quantity, naming a
\* customer, addresses and products that exist, answers with its validation error, and
\* when it answers it holds no product lock, has written no order item, and
\* leaves no order row.
C24_ValidationFirst ==
    [][\A r \in Requests :
          /\ req[r].adapter \in {"grpc", "graphql"}
          /\ req[r].missing = "none"
          /\ \A i \in 1..Len(req[r].lines) : req[r].lines[i].product \in Products
          /\ NonPositive(r)
          /\ pc[r] # "done" /\ pc'[r] = "done"
          => /\ result'[r] \in {"INVALID_ARGUMENT", "GraphQLError"}
             /\ \A p \in Products : lock[p] # r
             /\ tx[r].items = <<>>
             /\ ItemsOf(tx[r].oid) = <<>>
             /\ tx[r].oid \notin DOMAIN orders']_vars

----------------
(* Claims, checked under SpecStatus *)

\* the transition table of the order status machine
TableNext(old) ==
    CASE old = "pending" -> {"confirmed", "cancelled"}
      [] old = "confirmed" -> {"processing", "cancelled"}
      [] old = "processing" -> {"shipped"}
      [] old = "shipped" -> {"delivered"}
      [] OTHER -> {}

\* handler h's update_status request passes validation and writes the order
\* row in this step
UpdateAccepted(h) == hpc[h] = "idle" /\ hpc'[h] = "us_log"

\* C6: no update_status to delivered is accepted on a pending order, and one
\* accepted on a processing order sets the order's status to delivered; the
\* request then appends one OrderStatus row.
C6_DeliveredOnlyFromProcessing ==
    [][\A h \in Handlers :
          /\ (UpdateAccepted(h) /\ hloc'[h].status = "delivered")
             => /\ orders[hloc'[h].order].status # "pending"
                /\ orders'[hloc'[h].order].status = "delivered"
          /\ (hpc[h] = "us_log" /\ hpc'[h] = "idle")
             => Len(events') = Len(events) + 1]_vars

\* C7: the OrderStatus rows of each order, in creation order, follow the
\* transition table from one row to the next, so no status repeats.
C7_EventsFollowTable ==
    \A o \in DOMAIN orders :
        LET es == EventsOf(o)
        IN  \A i \in 1..(Len(es) - 1) : es[i + 1].status \in TableNext(es[i].status)

\* C8: no step changes the status of an order that is delivered or cancelled.
C8_TerminalIsFinal ==
    [][\A o \in DOMAIN orders :
          orders[o].status \in {"delivered", "cancelled"}
          => o \in DOMAIN orders' /\ orders'[o].status = orders[o].status]_vars

\* C9: no update_status is accepted whose status is the order's current
\* status, and no step that leaves an order's status as it is adds an
\* OrderStatus row of that status for it.
C9_DuplicateRejected ==
    [][/\ \A h \in Handlers :
            UpdateAccepted(h) => hloc'[h].status # orders[hloc'[h].order].status
       /\ \A o \in DOMAIN orders :
            (/\ Len(events') = Len(events) + 1
             /\ events'[Len(events')].order = o
             /\ EventsOf(o) # <<>>
             /\ EventsOf(o)[Len(EventsOf(o))].status = orders[o].status)
            => events'[Len(events')].status # orders[o].status]_vars

\* handler h's cancel_order writes the order row in this step
CancelTakesEffect(h) == hpc[h] = "co_save" /\ hpc'[h] = "co_log"

\* a request of handler h is answered in the step it arrived in: it was refused
Refused(h) ==
    hpc[h] = "idle" /\ hpc'[h] = "idle" /\ hres[h] # "400" /\ hres'[h] = "400"

\* C11: a cancel_order takes effect only on an order whose status is pending
\* or confirmed, and a request that is refused leaves every order's status
\* and the OrderStatus rows as they were.
C11_CancelOnlyFromOpen ==
    [][\A h \in Handlers :
          /\ CancelTakesEffect(h)
             => orders[hloc[h].order].status \in {"pending", "confirmed"}
          /\ Refused(h) => orders' = orders /\ events' = events]_vars

\* C11, for the check at the start of cancel_order alone: a cancel_order that
\* goes on to write found the order pending or confirmed when it read it.
C11_CheckRejects ==
    [][\A h \in Handlers :
          (hpc[h] = "idle" /\ hpc'[h] = "co_save")
          => orders[hloc'[h].order].status \in {"pending", "confirmed"}]_vars

\* the quantity of product p over the items of order o
Held(o, p) == SumQuantity(SelectSeq(ItemsOf(o), LAMBDA it : it.product = p))

\* C12: the step in which a cancel_order takes effect gives back, for every
\* product, the quantity the order's items hold of it.
C12_CancelReleasesStock ==
    [][\A h \in Handlers :
          CancelTakesEffect(h)
          => \A p \in Products : stock'[p] = stock[p] + Held(hloc[h].order, p)]_vars

----------------------------------------------------------------------------
(* Claims, checked under SpecPipeline *)

\* the executions a task gets: the first one and max_retries retries
max_attempts(task) == max_retries(task) + 1

\* C13: the handler of a message never starts more than max_attempts times; a
\* message is in the FAILURE state only after max_attempts starts, and then it
\* stays in the queue's record unchanged, never started again; a start takes
\* a message whose eta has passed; and a failure before that adds one to the
\* retry count and sets the eta default_retry_delay seconds ahead.
C13_RetryThenDeadLetter ==
    [][\A j \in 1..Len(jobs) :
          /\ j <= Len(jobs')
          /\ jobs'[j].runs <= max_attempts(jobs'[j].task)
          /\ jobs'[j].state = "failed" => jobs'[j].runs = max_attempts(jobs'[j].task)
          /\ jobs[j].state = "failed" => jobs'[j] = jobs[j]
          /\ jobs'[j].runs # jobs[j].runs
             => /\ jobs[j].state = "queued" /\ jobs[j].wait = 0
                /\ jobs'[j].runs = jobs[j].runs + 1
          /\ (jobs'[j].state = "queued" /\ jobs'[j].retries # jobs[j].retries)
             => /\ jobs'[j].retries = jobs[j].retries + 1
                /\ jobs'[j].wait = default_retry_delay(jobs'[j].task)
                /\ jobs'[j].runs < max_attempts(jobs'[j].task)]_vars

\* C13's case: a message whose handler failed max_attempts times
C13_Witness ==
    \E j \in 1..Len(jobs) :
        /\ jobs[j].state = "failed"
        /\ jobs[j].runs = max_attempts(jobs[j].task)
        /\ jobs[j].retries = max_retries(jobs[j].task)

\* C14: the stock of a product never falls below what one execution of
\* process_order_items and of each update_product_stock it publishes leaves:
\* the starting stock less the placements' decrements and less, once, the
\* quantity of every order item, clamped at 0.
C14_AppliedOnce ==
    \A p \in Products : stock[p] >= Max(0, stock0[p] - 2 * Sold(p))

\* C17: every send_order_confirmation_email message names an order whose
\* placement has committed.
C17_ConfirmationAfterCommit ==
    \A j \in 1..Len(jobs) :
        jobs[j].task = "send_order_confirmation_email"
        => \E r \in Requests : tx[r].oid = jobs[j].arg /\ Succeeded(r)

\* C17's case: a confirmation was queued for a committed order, and
\* process_order_items has run for an order that is not committed
C17_Witness ==
    /\ \E j \in 1..Len(jobs) : jobs[j].task = "send_order_confirmation_email"
    /\ \E j \in 1..Len(jobs) :
          /\ jobs[j].task = "process_order_items"
          /\ jobs[j].arg \notin DOMAIN orders
          /\ jobs[j].runs >= 1

\* request r's placement commits in this step
Committed(r) == pc[r] # "done" /\ pc'[r] = "done" /\ result'[r] = "OK"

\* C18: the step that commits a placement queues a confirmation for the
\* order and a low stock notification for every line whose product is left
\* with no stock; and a low stock notification is queued only for a product
\* with no stock.
C18_CommitEnqueues ==
    [][/\ \A r \in Requests :
             Committed(r)
             => /\ \E j \in 1..Len(jobs') :
                      /\ jobs'[j].task = "send_order_confirmation_email"
                      /\ jobs'[j].arg = tx'[r].oid
                /\ \A i \in 1..Len(req[r].lines) :
                      stock'[req[r].lines[i].product] <= 0
                      => req[r].lines[i].product \in alerted'
       /\ \A p \in Products : (p \in alerted' /\ p \notin alerted) => stock'[p] <= 0]_vars

\* C20: the gRPC placement of quantity 3 of product 1, priced 19.99 with a
\* stock of 10, commits an order with subtotal 59.97, tax 6.00, shipping
\* 10.00 and total 75.97 and leaves the stock at 7.
C20_WorkedExample ==
    [][\A r \in Requests :
          (/\ Committed(r)
           /\ req[r].adapter = "grpc"
           /\ req[r].lines = <<[product |-> 1, quantity |-> 3]>>
           /\ price[1] = 1999
           /\ stock[1] = 10)
          => /\ stock'[1] = 7
             /\ tx'[r].oid \in DOMAIN orders'
             /\ LET o == orders'[tx'[r].oid]
                IN  /\ o.subtotal = 5997
                    /\ o.tax_amount = 600
                    /\ o.shipping_cost = 1000
                    /\ o.total_amount = 7597]_vars

\* C20's case: the example order is committed
C20_Witness ==
    \E r \in Requests :
        /\ Succeeded(r)
        /\ req[r].lines = <<[product |-> 1, quantity |-> 3]>>
        /\ stock0[1] = 10
        /\ price[1] = 1999
        /\ orders[tx[r].oid].total_amount = 7597

----------------------------------------------------------------------------------------------------------------------------------------------------------------------------------------------------------------------------------------------------------------------------------------------------------------------------
(* Claims, checked under SpecPipelineFair. *)

\* every message on the queue has succeeded or is in the FAILURE state
AllEnded ==
    \A j \in 1..Len(jobs) : jobs[j].state \in {"succeeded", "failed"}

----------------
(* Claims, checked under SpecPrices. *)

\* the fields of an order that are sums of money
Totals(row) ==
    <<row.subtotal, row.tax_amount, row.shipping_cost, row.total_amount>>

\* C21: in every step every order item that exists keeps its unit_price and
\* total_price and every order that exists keeps its totals, whatever the
\* step does to the products' prices.
C21_PricesCaptured ==
    [][/\ \A i \in DOMAIN items :
             /\ i \in DOMAIN items'
             /\ items'[i].unit_price = items[i].unit_price
             /\ items'[i].total_price = items[i].total_price
       /\ \A o \in DOMAIN orders :
             /\ o \in DOMAIN orders'
             /\ Totals(orders'[o]) = Totals(orders[o])]_vars

\* an order item holds the price it was bought at, and the product's price
\* has changed since
C21_Witness ==
    \E i \in DOMAIN items :
        /\ items[i].unit_price = InitPrice(items[i].product)
        /\ price[items[i].product] # items[i].unit_price
        /\ items[i].order \in DOMAIN orders
        /\ orders[items[i].order].subtotal = items[i].total_price

\* C27: with payloads that carry no stock, once the placement has succeeded
\* and no sync job is running, every product's stock is what the placement
\* left: the starting stock less the quantity it took.
C27_SyncKeepsReservation ==
    \A r \in Requests :
        Succeeded(r) /\ (\A w \in SyncWorkers : wpc[w] = "idle")
            => \A p \in Products : stock[p] = stock0[p] - Asked(r, p)

----------------------------------------------------------------------------
(* Claims, checked under SpecAdjust. *)

\* the operations on product p that have ended: the update_product_stock jobs
\* (by their place in the queue) and the placements that took or were refused
\* the product (by the negated request)
Operations(p) ==
    {j \in 1..Len(jobs) :
        /\ jobs[j].task = "update_product_stock"
        /\ jobs[j].arg = p
        /\ jobs[j].state = "succeeded"}
    \cup {0 - r : r \in {x \in Requests :
                            /\ Done(x)
                            /\ Asked(x, p) > 0
                            /\ result[x] \in {"OK", "FAILED_PRECONDITION"}}}

\* the stock after operation op on stock s; -1 when the placement's answer is
\* not the one it gave
Applied(s, op, p) ==
    IF s < 0 THEN s
    ELSE IF op > 0 THEN Clamped(s, jobs[op].quantity)
    ELSE LET r == 0 - op
         IN  IF result[r] = "OK"
             THEN (IF s >= Asked(r, p) THEN s - Asked(r, p) ELSE -1)
             ELSE (IF s < Asked(r, p) THEN s ELSE -1)

RECURSIVE OneAfterAnother(_, _, _)
OneAfterAnother(s, order, p) ==
    IF order = <<>> THEN s
    ELSE OneAfterAnother(Applied(s, Head(order), p), Tail(order), p)

\* the operations in every order
SerialOrders(ops) ==
    {order \in [1..Cardinality(ops) -> ops] :
        \A i, k \in 1..Cardinality(ops) : order[i] = order[k] => i = k}

\* no job and no placement is under way
Quiet ==
    /\ \A w \in Workers : wpc[w] = "idle"
    /\ \A r \in Requests : pc[r] \in {"start", "unused", "done"}

\* C23: when nothing is under way, every product's stock is what the ended
\* update_product_stock jobs and placements give when applied to the starting
\* stock one after another in some order, each job clamped at zero.
C23_NoLostDecrement ==
    Quiet => \A p \in Products :
                \E order \in SerialOrders(Operations(p)) :
                    stock[p] = OneAfterAnother(stock0[p], order, p)

----------------------------------------------------------------------------
(* Claims, checked under SpecItems. *)

\* the quantity of product p over the persisted order items of the orders
\* that are not cancelled
SoldOpen(p) ==
    SumQuantity(SelectSeq(items,
        LAMBDA it : /\ it.product = p
                    /\ it.order \in DOMAIN orders
                    /\ orders[it.order].status # "cancelled"))

\* C26: for every product the starting stock is the stock plus the quantity
\* of its order items in orders that are not cancelled.
C26_Conservation ==
    \A p \in Products : stock0[p] = stock[p] + SoldOpen(p)

----------------
(* Claims, checked under SpecCleanup. *)

\* C16: an order row that goes away had the status delivered or cancelled and
\* was older than the cutoff: every other order is still there after any step.
C16_DeletesOnlyOldClosed ==
    [][\A o \in DOMAIN orders :
          o \notin DOMAIN orders'
              => o \in aged /\ orders[o].status \in {"delivered", "cancelled"}]_vars

\* what the job selects is old and closed when it is selected
C16_SelectsOnlyOldClosed ==
    [][\A w \in CleanupWorkers :
          wpc[w] = "idle" /\ wpc'[w] = "cleanup"
              => \A o \in doomed' :
                    o \in aged /\ orders[o].status \in {"delivered", "cancelled"}]_vars

----------------
(* Claims, checked under SpecSync. *)

\* C15: when sync_external_inventory has run twice on the same external
\* answers, every product's stock_quantity and price are what they were when
\* the first run ended.
C15_ReplaySame ==
    syncRuns = MaxRuns => <<stock, price>> = afterFirst

\* two runs have ended and the first one changed a stock and a price
C15_Witness ==
    /\ syncRuns = MaxRuns
    /\ \E p \in Products :
          /\ ext[p].answer = "200"
          /\ ext[p].stock # <<>>
          /\ stock[p] # stock0[p]
    /\ \E p \in Products : price[p] # InitPrice(p)

\* C25: when a run of sync_external_inventory has ended, every product whose
\* fetch answers 200 with a stock has that stock, whatever the fetches of the
\* other products answer.
C25_BatchGoesOn ==
    syncRuns >= 1 =>
        \A p \in Products :
            ext[p].answer = "200" /\ ext[p].stock # <<>>
                => afterFirst[1][p] = ext[p].stock[1]

\* C25, for the answers that are not 200: a product after one that answers
\* 404 is still updated in the same run.
C25_SkipsNon200 ==
    /\ syncRuns >= 1
    /\ \A p \in Products : ext[p].answer # "error"
    => \A p \in Products :
          ext[p].answer = "200" /\ ext[p].stock # <<>>
              => afterFirst[1][p] = ext[p].stock[1]

----------------
(* Claims, checked under SpecInventory *)

\* C2: the stock of every product is at least 0.
C2_StockNeverNegative == \A p \in Products : stock[p] >= 0

====
